---- MODULE Spec2Model ----
(***************************************************************************)
(* Model of the wake-word audio orchestration layer (src/src/wake):        *)
(* AudioCapture -> VAD -> {GoogleSpeechService | command session}, driven  *)
(* by the WakeWordService state machine.  Two orchestrator variants are    *)
(* modelled, selected by `mode`:                                           *)
(*   "batch" : audioCapture.ts:268-623 (record-then-classify, Gemini       *)
(*             command service, geminiCommand.ts:495-668)                  *)
(*   "live"  : wakeWordService.ts:424-716 (Gemini Live session,            *)
(*             geminiLive.ts:73-301)                                       *)
(* Every event-loop callback of the program is one atomic action; the      *)
(* synchronous EventEmitter calls it makes are part of that action.        *)
(***************************************************************************)
EXTENDS Integers, Sequences, FiniteSets, TLC

(***************************************************************************)
(* Bounds of the model                                                     *)
(***************************************************************************)
\* frames of audio carried by one chunk of the microphone stream
MaxFramesPerChunk == 1
\* length up to which speechBuffer is kept (it is appended to and cleared,
\* never read: longer buffers are identified with one of this length)
MaxSpeechEvents == 2
\* chunks held in pendingAudio by the orchestrator runs
MaxBuffered == 2
\* recognition streams that were ended or lost and can still deliver events
MaxStale == 1
\* setTimeout callbacks pending at once whose handle is not kept
MaxTimeouts == 2
\* asynchronous command operations (processCommand / startSession) in flight
MaxInflight == 1
\* chunks buffered by a command session
MaxCmdChunks == 2
\* results carried by one streaming-recognition response
MaxResults == 1
\* write() calls made by the direct client of GoogleSpeechService (SpecGS)
MaxWrites == 4
\* frames carried by one chunk given to a VAD on its own (SpecVAD)
MaxVadFrames == 3
\* VADConfig.frameSize (samples per frame), bytes per chunk and bytes in all
\* given to a VAD that is fed bytes (SpecFrames)
ModelFrameSize == 2
MaxChunkBytes == 5
MaxBytes == 12
\* write() calls made by the client that writes with no stream open (SpecBurst)
MaxBurst == 102

(***************************************************************************)
(* Program constants                                                       *)
(***************************************************************************)
speechStartFrames == 3
speechEndFrames == 15
MaxPendingAudio == 100
\* DEFAULT_GOOGLE_SPEECH_CONFIG.maxStreamDuration and the provider's limit (ms)
maxStreamDuration == 290000
providerStreamLimit == 305000
LiveAudioBufferCap == 50

VARIABLES
  \* ---- which WakeWordService implementation was constructed
  mode,
  \* ---- WakeWordService fields
  initialized,        \* initialize() has completed (googleSpeech.client set)
  status,
  isRunning,
  currentTranscript,
  speechBuffer,
  speechOver,         \* Date.now() - speechStartTime > maxSpeechDuration
  silenceTimer,       \* "null" | "armed" | "spent" (handle kept, not pending)
  recordingTimer,
  \* ---- AudioCapture
  isCapturing,
  \* ---- VAD
  vadState,
  vadBuffer,
  consecutiveFrames,
  \* ---- GoogleSpeechService
  stream,             \* "null" | "open": the stream the service references
  isStreaming,
  reconnectTimer,
  pendingAudio,
  \* ---- recognition provider: streams the service no longer references
  provEnding,         \* end() was called, their events are still to come
  provZombies,        \* still open at the provider, never ended
  \* ---- GeminiCommandService (batch)
  isRecording,
  audioBuffer,
  recOver,            \* Date.now() - recordingStartTime >= recordingDuration
  procPending,        \* processCommand() runs awaiting processAudio()
  speakPending,       \* processCommand() runs awaiting speakText()
  \* ---- GeminiLiveService (live)
  session,            \* "null" | "open"
  isConnected,
  liveAudioBuffer,
  glConnecting,       \* ai.live.connect() calls in flight
  glClosing,          \* sessions closed by close(), onclose still to come
  glOrphans,          \* sessions open at the server, no longer referenced
  \* ---- WakeWordService of wakeWordService.ts (commands by transcript)
  commandTranscript,
  commandTimeout,     \* "null" | "armed" | "spent"
  silenceCheckInterval,
  timeouts,           \* pending setTimeout callbacks whose handle is not kept
  \* ---- observation
  log,                \* events emitted / calls made by the last callback
  statusTrail,        \* statusChange events since status was last idle
  cmdRuns,            \* processCommand() runs since the last wake detection
  cmdResponses,       \* geminiResponse events since the last wake detection
  nextChunk           \* id of the next chunk written by the direct client

vars == << mode, initialized, status, isRunning, currentTranscript, speechBuffer,
           speechOver, silenceTimer, recordingTimer, isCapturing, vadState,
           vadBuffer, consecutiveFrames, stream, isStreaming, reconnectTimer,
           pendingAudio, provEnding, provZombies, isRecording, audioBuffer,
           recOver, procPending, speakPending, session, isConnected,
           liveAudioBuffer, glConnecting, glClosing, glOrphans,
           commandTranscript, commandTimeout, silenceCheckInterval, timeouts,
           log, statusTrail, cmdRuns, cmdResponses, nextChunk >>

(***************************************************************************)
(* The whole program state as one record, so that a callback and the       *)
(* synchronous calls it makes compose as functions; `fail` is the input    *)
(* of the running callback that says which stream.write() call throws      *)
(* (0: none), `silent` its input that says whether Date.now() is           *)
(* silenceTimeout or more past lastSpeechAt.                               *)
(***************************************************************************)
World ==
  [ mode |-> mode, initialized |-> initialized, status |-> status,
    isRunning |-> isRunning, currentTranscript |-> currentTranscript,
    speechBuffer |-> speechBuffer, speechOver |-> speechOver,
    silenceTimer |-> silenceTimer, recordingTimer |-> recordingTimer,
    isCapturing |-> isCapturing, vadState |-> vadState, vadBuffer |-> vadBuffer,
    consecutiveFrames |-> consecutiveFrames, stream |-> stream,
    isStreaming |-> isStreaming, reconnectTimer |-> reconnectTimer,
    pendingAudio |-> pendingAudio, provEnding |-> provEnding,
    provZombies |-> provZombies, isRecording |-> isRecording,
    audioBuffer |-> audioBuffer, recOver |-> recOver,
    procPending |-> procPending, speakPending |-> speakPending,
    session |-> session, isConnected |-> isConnected,
    liveAudioBuffer |-> liveAudioBuffer, glConnecting |-> glConnecting,
    glClosing |-> glClosing, glOrphans |-> glOrphans,
    commandTranscript |-> commandTranscript, commandTimeout |-> commandTimeout,
    silenceCheckInterval |-> silenceCheckInterval, timeouts |-> timeouts,
    log |-> << >>,
    statusTrail |-> statusTrail, cmdRuns |-> cmdRuns,
    cmdResponses |-> cmdResponses, nextChunk |-> nextChunk, fail |-> 0,
    silent |-> FALSE ]

Assign(w) ==
  /\ mode' = w.mode
  /\ initialized' = w.initialized
  /\ status' = w.status
  /\ isRunning' = w.isRunning
  /\ currentTranscript' = w.currentTranscript
  /\ speechBuffer' = w.speechBuffer
  /\ speechOver' = w.speechOver
  /\ silenceTimer' = w.silenceTimer
  /\ recordingTimer' = w.recordingTimer
  /\ isCapturing' = w.isCapturing
  /\ vadState' = w.vadState
  /\ vadBuffer' = w.vadBuffer
  /\ consecutiveFrames' = w.consecutiveFrames
  /\ stream' = w.stream
  /\ isStreaming' = w.isStreaming
  /\ reconnectTimer' = w.reconnectTimer
  /\ pendingAudio' = w.pendingAudio
  /\ provEnding' = w.provEnding
  /\ provZombies' = w.provZombies
  /\ isRecording' = w.isRecording
  /\ audioBuffer' = w.audioBuffer
  /\ recOver' = w.recOver
  /\ procPending' = w.procPending
  /\ speakPending' = w.speakPending
  /\ session' = w.session
  /\ isConnected' = w.isConnected
  /\ liveAudioBuffer' = w.liveAudioBuffer
  /\ glConnecting' = w.glConnecting
  /\ glClosing' = w.glClosing
  /\ glOrphans' = w.glOrphans
  /\ commandTranscript' = w.commandTranscript
  /\ commandTimeout' = w.commandTimeout
  /\ silenceCheckInterval' = w.silenceCheckInterval
  /\ timeouts' = w.timeouts
  /\ log' = w.log
  /\ statusTrail' = w.statusTrail
  /\ cmdRuns' = w.cmdRuns
  /\ cmdResponses' = w.cmdResponses
  /\ nextChunk' = w.nextChunk

\* a callback that changed nothing leaves the observation log as it was
Commit(w) ==
  \E v \in {w} :
    IF [v EXCEPT !.log = << >>, !.fail = 0, !.silent = FALSE] = World
    THEN UNCHANGED vars
    ELSE Assign(v)

\* the bounds of the orchestrator runs
Bounded(w) ==
  /\ w.provEnding + w.provZombies <= MaxStale
  /\ Len(w.pendingAudio) <= MaxBuffered \/ Len(w.pendingAudio) <= Len(pendingAudio)
  /\ Len(w.audioBuffer) <= MaxCmdChunks
  /\ Len(w.liveAudioBuffer) <= MaxCmdChunks
  /\ Len(w.procPending) + Len(w.speakPending) <= MaxInflight
  /\ w.glConnecting <= MaxInflight
  /\ w.glClosing + w.glOrphans <= MaxStale
  /\ Len(w.timeouts) <= MaxTimeouts

\* callbacks run one at a time: the next one starts once the last has returned
Step(w) == log = << >> /\ Bounded(w) /\ Commit(w)

\* an entry of the observation log: event e, the orchestrator status when it
\* happened (for statusChange: the new status), and the chunk it carried
Entry(e, st, c) == [e |-> e, st |-> st, c |-> c]

Note(w, e) == [w EXCEPT !.log = Append(@, Entry(e, w.status, 0))]

NoteChunk(w, e, c) == [w EXCEPT !.log = Append(@, Entry(e, w.status, c))]

\* the entries of a log that record event e
Events(l, e) == SelectSeq(l, LAMBDA x : x.e = e)

Has(l, e) == \E i \in 1..Len(l) : l[i].e = e

\* position of the first entry recording e (0: none)
FirstIdx(l, e) ==
  IF Has(l, e) THEN CHOOSE i \in 1..Len(l) :
                      l[i].e = e /\ \A j \in 1..(i-1) : l[j].e # e
  ELSE 0

(***************************************************************************)
(* GoogleSpeechService (googleSpeech.ts)                                   *)
(***************************************************************************)
RECURSIVE startStream(_), write(_, _), flushPendingAudio(_)

\* faulty variant of stopStream: the reconnect timer is left pending
stopStreamKeepsTimer(w) ==
  LET w2 == IF w.stream = "open"
            THEN [w EXCEPT !.stream = "null", !.provEnding = @ + 1]
            ELSE w
  IN Note([w2 EXCEPT !.isStreaming = FALSE], "streamEnd")

\* faulty variant of stopStream: the pending buffer is emptied
stopStreamDropsPending(w) ==
  LET w1 == [w EXCEPT !.reconnectTimer = "null", !.pendingAudio = << >>]
      w2 == IF w1.stream = "open"
            THEN [w1 EXCEPT !.stream = "null", !.provEnding = @ + 1]
            ELSE w1
  IN Note([w2 EXCEPT !.isStreaming = FALSE], "streamEnd")

stopStream(w) ==
  LET w1 == [w EXCEPT !.reconnectTimer = "null"]
      w2 == IF w1.stream = "open"
            THEN [w1 EXCEPT !.stream = "null", !.provEnding = @ + 1]
            ELSE w1
  IN Note([w2 EXCEPT !.isStreaming = FALSE], "streamEnd")

handleStreamEnd(w) ==
  [w EXCEPT !.isStreaming = FALSE, !.stream = "null", !.reconnectTimer = "null"]

\* faulty variant of scheduleReconnect: no timer is set
scheduleReconnectNever(w) == w

scheduleReconnect(w) == [w EXCEPT !.reconnectTimer = "armed"]

startStream(w) ==
  LET w1 == IF w.stream = "open" THEN stopStream(w) ELSE w
      w2 == [w1 EXCEPT !.stream = "open", !.isStreaming = TRUE]
      w3 == Note(scheduleReconnect(w2), "streamStart")
  IN flushPendingAudio(w3)

\* faulty variant of write: at the cap the newest chunk is the one dropped
writeDropsNewest(w, audioChunk) ==
  IF ~w.isStreaming \/ w.stream = "null"
  THEN LET w1 == [w EXCEPT !.pendingAudio = Append(@, audioChunk)]
       IN IF Len(w1.pendingAudio) > MaxPendingAudio
          THEN [w1 EXCEPT !.pendingAudio = SubSeq(@, 1, Len(@) - 1)]
          ELSE w1
  ELSE IF audioChunk = 0
  THEN w
  ELSE IF w.fail = 1
  THEN startStream(Note([w EXCEPT !.fail = 0], "writeThrew"))
  ELSE NoteChunk([w EXCEPT !.fail = IF @ > 1 THEN @ - 1 ELSE 0],
                 "streamWrite", audioChunk)

\* faulty variant of write: the chunk whose write threw is written again
writeRetriesFailed(w, audioChunk) ==
  IF ~w.isStreaming \/ w.stream = "null"
  THEN LET w1 == [w EXCEPT !.pendingAudio = Append(@, audioChunk)]
       IN IF Len(w1.pendingAudio) > MaxPendingAudio
          THEN [w1 EXCEPT !.pendingAudio = Tail(@)]
          ELSE w1
  ELSE IF audioChunk = 0
  THEN w
  ELSE IF w.fail = 1
  THEN startStream(Note([w EXCEPT !.fail = 0,
                                  !.pendingAudio = << audioChunk >> \o @],
                        "writeThrew"))
  ELSE NoteChunk([w EXCEPT !.fail = IF @ > 1 THEN @ - 1 ELSE 0],
                 "streamWrite", audioChunk)

write(w, audioChunk) ==
  IF ~w.isStreaming \/ w.stream = "null"
  THEN LET w1 == [w EXCEPT !.pendingAudio = Append(@, audioChunk)]
       IN IF Len(w1.pendingAudio) > MaxPendingAudio
          THEN [w1 EXCEPT !.pendingAudio = Tail(@)]
          ELSE w1
  ELSE IF audioChunk = 0
  THEN w
  ELSE IF w.fail = 1
  THEN startStream(Note([w EXCEPT !.fail = 0], "writeThrew"))
  ELSE NoteChunk([w EXCEPT !.fail = IF @ > 1 THEN @ - 1 ELSE 0],
                 "streamWrite", audioChunk)

\* faulty variant of flushPendingAudio: the buffered audio is discarded
flushDiscards(w) == [w EXCEPT !.pendingAudio = << >>]

flushPendingAudio(w) ==
  IF Len(w.pendingAudio) > 0 /\ w.isStreaming /\ w.stream = "open"
  THEN LET chunk == Head(w.pendingAudio)
           w1 == [w EXCEPT !.pendingAudio = Tail(@)]
       IN flushPendingAudio(write(w1, chunk))
  ELSE w

(***************************************************************************)
(* Orchestrator status and the command sessions                            *)
(***************************************************************************)
\* faulty variant of setStatus: statusChange is emitted on every call
setStatusAlways(w, s) ==
  [w EXCEPT !.status = s,
            !.statusTrail = IF s = "idle" THEN << >> ELSE Append(@, s),
            !.log = Append(@, Entry("statusChange", s, 0))]

setStatus(w, s) ==
  IF w.status # s
  THEN [w EXCEPT !.status = s,
                 !.statusTrail = IF s = "idle" THEN << >> ELSE Append(@, s),
                 !.log = Append(@, Entry("statusChange", s, 0))]
  ELSE w

\* clearTimeout(handle): a pending timer is cancelled, the handle is kept
clearTimeout(t) == IF t = "armed" THEN "spent" ELSE t

\* if (timer) { clearTimeout(timer); timer = null; }
clearAndNull(t) == "null"

\* faulty variant of reset: the VAD state is left as it is
resetNothing(w) == w

\* ---- VAD.reset (geminiLive.ts:455-459)
reset(w) ==
  [w EXCEPT !.vadState = "silence", !.vadBuffer = << >>, !.consecutiveFrames = 0]

\* ---- GeminiCommandService (geminiCommand.ts:495-668)
startRecording(w) ==
  [w EXCEPT !.audioBuffer = << >>, !.isRecording = TRUE, !.recOver = FALSE]

\* faulty variant of stopRecording: the recording flag stays set
stopRecordingNothing(w) == w

stopRecording(w) == [w EXCEPT !.isRecording = FALSE]

clear(w) == [w EXCEPT !.audioBuffer = << >>, !.isRecording = FALSE]

\* ---- GeminiLiveService (geminiLive.ts:73-301)
endSession(w) ==
  LET w1 == IF w.session = "open"
            THEN [w EXCEPT !.session = "null", !.isConnected = FALSE,
                           !.glClosing = @ + 1]
            ELSE w
  IN [w1 EXCEPT !.liveAudioBuffer = << >>]

\* the synchronous part of startSession(), up to `await ai.live.connect()`
startSession(w) ==
  LET w1 == IF w.session = "open"
            THEN [w EXCEPT !.session = "null", !.glClosing = @ + 1]
            ELSE w
  IN [w1 EXCEPT !.glConnecting = @ + 1]

sendAudio(w, audioChunk) ==
  IF w.session = "null" \/ ~w.isConnected
  THEN LET w1 == [w EXCEPT !.liveAudioBuffer = Append(@, audioChunk)]
       IN IF Len(w1.liveAudioBuffer) > LiveAudioBufferCap
          THEN [w1 EXCEPT !.liveAudioBuffer = Tail(@)]
          ELSE w1
  ELSE NoteChunk(w, "sendRealtimeInput", audioChunk)

(***************************************************************************)
(* WakeWordService: resetToIdle, processCommand, handleWakeWordDetected    *)
(***************************************************************************)
resetToIdleBatch(w) ==
  LET w1 == [w EXCEPT !.silenceTimer = clearAndNull(@),
                      !.recordingTimer = clearAndNull(@)]
      w2 == clear(stopStream(w1))
      w3 == reset([w2 EXCEPT !.speechBuffer = << >>, !.currentTranscript = ""])
  IN IF w3.isRunning THEN setStatus(w3, "idle") ELSE w3

\* faulty variant of the live resetToIdle: the Gemini session is kept
resetToIdleLiveKeepsSession(w) ==
  LET w1 == [w EXCEPT !.silenceTimer = clearAndNull(@)]
      w2 == stopStream(w1)
      w3 == reset([w2 EXCEPT !.speechBuffer = << >>, !.currentTranscript = ""])
  IN IF w3.isRunning THEN setStatus(w3, "idle") ELSE w3

resetToIdleLive(w) ==
  LET w1 == [w EXCEPT !.silenceTimer = clearAndNull(@)]
      w2 == endSession(stopStream(w1))
      w3 == reset([w2 EXCEPT !.speechBuffer = << >>, !.currentTranscript = ""])
  IN IF w3.isRunning THEN setStatus(w3, "idle") ELSE w3

resetToIdle(w) ==
  Note(IF w.mode = "batch" THEN resetToIdleBatch(w) ELSE resetToIdleLive(w),
       "resetToIdle")

\* processCommand() from the point where processAudio() has settled up to
\* `await speakText()`; outcome "error" is processAudio's catch branch, which
\* emits "error" (handled by resetToIdle) and returns null
afterProcessAudio(w, run, outcome) ==
  LET w1 == IF outcome = "error"
            THEN resetToIdle(Note(w, "geminiCommandError")) ELSE w
      w2 == Note(w1, "geminiResponse")
  IN [w2 EXCEPT !.cmdResponses = IF run.cur THEN @ + 1 ELSE @,
                !.speakPending = Append(@, [cur |-> run.cur,
                                            tool |-> outcome = "tool"])]

\* processCommand() up to `await speakText()` or, when audio was recorded, up
\* to `await this.geminiCommand.processAudio()`: with no recorded audio
\* processAudio() returns null before it awaits anything
processCommand(w) ==
  LET w1 == Note([w EXCEPT !.recordingTimer = clearAndNull(@), !.cmdRuns = @ + 1],
                 "processCommand")
  IN IF Len(w1.audioBuffer) = 0
     THEN afterProcessAudio(w1, [cur |-> TRUE], "null")
     ELSE [w1 EXCEPT !.procPending = Append(@, [cur |-> TRUE])]

\* runs still awaiting when a new wake phrase is detected belong to an
\* earlier detection
Superseded(pending) ==
  [i \in 1..Len(pending) |-> [pending[i] EXCEPT !.cur = FALSE]]

handleWakeWordDetectedBatch(w) ==
  LET w1 == stopStream(w)
      w2 == [w1 EXCEPT !.silenceTimer = clearAndNull(@),
                       !.procPending = Superseded(@),
                       !.speakPending = Superseded(@),
                       !.cmdRuns = 0, !.cmdResponses = 0]
      w3 == Note(setStatus(w2, "wake_detected"), "wakeDetected")
      w4 == startRecording(setStatus(w3, "command_window"))
  IN [w4 EXCEPT !.recordingTimer = "armed"]

handleWakeWordDetectedLive(w) ==
  LET w1 == stopStream(w)
      w2 == [w1 EXCEPT !.silenceTimer = clearAndNull(@)]
      w3 == Note(setStatus(w2, "wake_detected"), "wakeDetected")
  IN startSession(w3)

handleWakeWordDetected(w) ==
  IF w.mode = "batch" THEN handleWakeWordDetectedBatch(w)
  ELSE handleWakeWordDetectedLive(w)

\* geminiCommand.on("recordingComplete")
onRecordingComplete(w) == processCommand(setStatus(w, "processing"))

\* GeminiCommandService.addAudioChunk
addAudioChunk(w, chunk) ==
  IF ~w.isRecording THEN w
  ELSE LET w1 == NoteChunk([w EXCEPT !.audioBuffer = Append(@, chunk)],
                           "addAudioChunk", chunk)
       IN IF w1.recOver
          THEN onRecordingComplete(
                 Note([w1 EXCEPT !.isRecording = FALSE], "recordingComplete"))
          ELSE w1

(***************************************************************************)
(* VAD event handlers of the orchestrator and VAD.process                  *)
(***************************************************************************)
\* faulty variant of the speechStart handler: no recognition stream is opened
onSpeechStartNoStream(w) ==
  IF w.status = "idle"
  THEN setStatus([w EXCEPT !.speechBuffer = << >>, !.speechOver = FALSE],
                 "listening")
  ELSE w

onSpeechStart(w) ==
  IF w.status = "idle"
  THEN LET w1 == setStatus([w EXCEPT !.speechBuffer = << >>, !.speechOver = FALSE],
                           "listening")
       IN IF ~w1.isStreaming THEN startStream(w1) ELSE w1
  ELSE w

\* faulty variant of the speech handler: it does not look at the status
onSpeechAnyStatus(w, chunk) ==
  LET w1 == NoteChunk([w EXCEPT !.speechBuffer =
                                   IF Len(@) < MaxSpeechEvents
                                   THEN Append(@, chunk) ELSE @],
                      "write", chunk)
      w2 == write(w1, chunk)
      w3 == [w2 EXCEPT !.silenceTimer = clearTimeout(@)]
  IN IF w3.speechOver THEN resetToIdle(w3) ELSE w3

\* faulty variant of the speech handler: no limit on the speech duration
onSpeechNoLimit(w, chunk) ==
  IF w.status = "listening"
  THEN LET w1 == NoteChunk([w EXCEPT !.speechBuffer =
                                        IF Len(@) < MaxSpeechEvents
                                        THEN Append(@, chunk) ELSE @],
                           "write", chunk)
           w2 == write(w1, chunk)
       IN [w2 EXCEPT !.silenceTimer = clearTimeout(@)]
  ELSE w

onSpeech(w, chunk) ==
  IF w.status = "listening"
  THEN LET w1 == NoteChunk([w EXCEPT !.speechBuffer =
                                        IF Len(@) < MaxSpeechEvents
                                        THEN Append(@, chunk) ELSE @],
                           "write", chunk)
           w2 == write(w1, chunk)
           w3 == [w2 EXCEPT !.silenceTimer = clearTimeout(@)]
       IN IF w3.speechOver THEN resetToIdle(w3) ELSE w3
  ELSE w

onSpeechEnd(w) ==
  IF w.status = "listening"
  THEN [w EXCEPT !.silenceTimer = "armed"]
  ELSE w

(***************************************************************************)
(* WakeWordService of wakeWordService.ts, which takes the command from the *)
(* transcripts that follow the wake phrase (mode "stt"): its timers and    *)
(* its VAD event handlers                                                  *)
(***************************************************************************)
\* setTimeout(callback, delay) whose handle is dropped; `stale` is set once
\* stop() has been called while the callback was pending
setTimeout(w, kind) ==
  [w EXCEPT !.timeouts = Append(@, [kind |-> kind, stale |-> FALSE])]

resetToListening(w) ==
  LET w1 == [w EXCEPT !.commandTranscript = "", !.currentTranscript = "",
                      !.commandTimeout = clearAndNull(@),
                      !.silenceCheckInterval = clearAndNull(@)]
      w2 == stopStream(w1)
  IN IF w2.isRunning THEN setStatus(w2, "idle") ELSE w2

captureCommand(w, command) ==
  LET w1 == [w EXCEPT !.commandTimeout = clearAndNull(@),
                      !.silenceCheckInterval = clearAndNull(@)]
      w2 == setStatus(stopStream(w1), "processing")
  IN setTimeout(NoteChunk(w2, "commandCaptured", command), "captureReset")

checkSilenceTimeout(w) ==
  IF w.status # "wake_detected" THEN w
  ELSE IF w.silent
  THEN IF w.commandTranscript # ""
       THEN captureCommand(w, w.commandTranscript)
       ELSE resetToListening(w)
  ELSE w

\* vad.on("speechStart")
sttOnSpeechStart(w) ==
  LET w1 == IF ~w.isStreaming THEN startStream(w) ELSE w
      w2 == [w1 EXCEPT !.silent = FALSE]
  IN IF w2.status = "idle" THEN setStatus(w2, "listening") ELSE w2

\* vad.on("speech")
sttOnSpeech(w, chunk) ==
  [write(NoteChunk(w, "write", chunk), chunk) EXCEPT !.silent = FALSE]

\* vad.on("speechEnd")
sttOnSpeechEnd(w) ==
  LET w1 == IF w.status \in {"idle", "listening"}
            THEN setTimeout(w, "speechEndStop") ELSE w
  IN IF w1.status = "wake_detected" THEN checkSilenceTimeout(w1) ELSE w1

\* this.emit(...) of the VAD: the orchestrator's handlers are the listeners;
\* a VAD constructed on its own (mode "vad") has none
emitSpeechStart(w) ==
  IF w.mode = "vad" THEN Note(w, "speechStart")
  ELSE IF w.mode = "stt" THEN sttOnSpeechStart(Note(w, "speechStart"))
  ELSE onSpeechStart(Note(w, "speechStart"))

emitSpeech(w, chunk) ==
  IF w.mode = "vad" THEN Note(w, "speech")
  ELSE IF w.mode = "stt" THEN sttOnSpeech(Note(w, "speech"), chunk)
  ELSE onSpeech(Note(w, "speech"), chunk)

emitSpeechEnd(w) ==
  IF w.mode = "vad" THEN Note(w, "speechEnd")
  ELSE IF w.mode = "stt" THEN sttOnSpeechEnd(Note(w, "speechEnd"))
  ELSE onSpeechEnd(Note(w, "speechEnd"))

\* faulty variant of updateState: a silent frame in Silence keeps the count
updateStateKeepsCount(w, isSpeech, chunk) ==
  IF w.vadState = "silence"
  THEN IF isSpeech
       THEN LET w1 == [w EXCEPT !.consecutiveFrames = @ + 1]
            IN IF w1.consecutiveFrames >= speechStartFrames
               THEN emitSpeech(emitSpeechStart([w1 EXCEPT !.vadState = "speech",
                                                          !.consecutiveFrames = 0]),
                               chunk)
               ELSE w1
       ELSE w
  ELSE LET w1 == emitSpeech(w, chunk)
       IN IF ~isSpeech
          THEN LET w2 == [w1 EXCEPT !.consecutiveFrames = @ + 1]
               IN IF w2.consecutiveFrames >= speechEndFrames
                  THEN emitSpeechEnd([w2 EXCEPT !.vadState = "silence",
                                                !.consecutiveFrames = 0])
                  ELSE w2
          ELSE [w1 EXCEPT !.consecutiveFrames = 0]

\* faulty variant of updateState: speech ends without a speechEnd event
updateStateNoEnd(w, isSpeech, chunk) ==
  IF w.vadState = "silence"
  THEN IF isSpeech
       THEN LET w1 == [w EXCEPT !.consecutiveFrames = @ + 1]
            IN IF w1.consecutiveFrames >= speechStartFrames
               THEN emitSpeech(emitSpeechStart([w1 EXCEPT !.vadState = "speech",
                                                          !.consecutiveFrames = 0]),
                               chunk)
               ELSE w1
       ELSE [w EXCEPT !.consecutiveFrames = 0]
  ELSE LET w1 == emitSpeech(w, chunk)
       IN IF ~isSpeech
          THEN LET w2 == [w1 EXCEPT !.consecutiveFrames = @ + 1]
               IN IF w2.consecutiveFrames >= speechEndFrames
                  THEN [w2 EXCEPT !.vadState = "silence", !.consecutiveFrames = 0]
                  ELSE w2
          ELSE [w1 EXCEPT !.consecutiveFrames = 0]

\* faulty variant of updateState: a speech frame in Speech keeps the count
updateStateKeepsSilentCount(w, isSpeech, chunk) ==
  IF w.vadState = "silence"
  THEN IF isSpeech
       THEN LET w1 == [w EXCEPT !.consecutiveFrames = @ + 1]
            IN IF w1.consecutiveFrames >= speechStartFrames
               THEN emitSpeech(emitSpeechStart([w1 EXCEPT !.vadState = "speech",
                                                          !.consecutiveFrames = 0]),
                               chunk)
               ELSE w1
       ELSE [w EXCEPT !.consecutiveFrames = 0]
  ELSE LET w1 == emitSpeech(w, chunk)
       IN IF ~isSpeech
          THEN LET w2 == [w1 EXCEPT !.consecutiveFrames = @ + 1]
               IN IF w2.consecutiveFrames >= speechEndFrames
                  THEN emitSpeechEnd([w2 EXCEPT !.vadState = "silence",
                                                !.consecutiveFrames = 0])
                  ELSE w2
          ELSE w1

updateState(w, isSpeech, chunk) ==
  IF w.vadState = "silence"
  THEN IF isSpeech
       THEN LET w1 == [w EXCEPT !.consecutiveFrames = @ + 1]
            IN IF w1.consecutiveFrames >= speechStartFrames
               THEN emitSpeech(emitSpeechStart([w1 EXCEPT !.vadState = "speech",
                                                          !.consecutiveFrames = 0]),
                               chunk)
               ELSE w1
       ELSE [w EXCEPT !.consecutiveFrames = 0]
  ELSE LET w1 == emitSpeech(w, chunk)
       IN IF ~isSpeech
          THEN LET w2 == [w1 EXCEPT !.consecutiveFrames = @ + 1]
               IN IF w2.consecutiveFrames >= speechEndFrames
                  THEN emitSpeechEnd([w2 EXCEPT !.vadState = "silence",
                                                !.consecutiveFrames = 0])
                  ELSE w2
          ELSE [w1 EXCEPT !.consecutiveFrames = 0]

RECURSIVE processFrames(_, _)
\* the while loop of VAD.process: one complete frame at a time
processFrames(w, chunk) ==
  IF Len(w.vadBuffer) >= 1
  THEN LET frame == Head(w.vadBuffer)
           w1 == [w EXCEPT !.vadBuffer = Tail(@)]
       IN processFrames(updateState(w1, frame, chunk), chunk)
  ELSE w

\* a chunk is [id, frames]: frames are the speech/silence classes of the
\* complete frames it carries (energy > energyThreshold)
process(w, chunk) ==
  processFrames([w EXCEPT !.vadBuffer = @ \o chunk.frames], chunk.id)

\* ---- VAD.process on bytes.  A byte is [n, loud]: n numbers the bytes in
\* the order they were received, loud tells 0x7f from 0x00.
bytesPerFrame == ModelFrameSize * 2

\* calculateEnergy(frame) > energyThreshold: samples are 16-bit little-endian,
\* so a sample whose high byte is 0x7f is at full scale and lifts the RMS of
\* the frame over the threshold, while low bytes alone stay far below it
energyAboveThreshold(frame) ==
  \E i \in 1..Len(frame) : i % 2 = 0 /\ frame[i].loud

RECURSIVE frameLoop(_, _)
\* the while loop of VAD.process
frameLoop(w, chunk) ==
  IF Len(w.vadBuffer) >= bytesPerFrame
  THEN LET frame == SubSeq(w.vadBuffer, 1, bytesPerFrame)
           w1 == [w EXCEPT !.vadBuffer = SubSeq(@, bytesPerFrame + 1, Len(@))]
           isSpeech == energyAboveThreshold(frame)
       IN frameLoop(updateState(NoteChunk(w1, "frame", frame), isSpeech, chunk),
                    chunk)
  ELSE w

\* faulty variant of processBytes: the remainder of the last call is dropped
processBytesNoCarry(w, bytes) ==
  frameLoop([w EXCEPT !.vadBuffer = bytes], 1)

processBytes(w, bytes) ==
  frameLoop([w EXCEPT !.vadBuffer = @ \o bytes], 1)

(***************************************************************************)
(* Callbacks of the orchestrator                                           *)
(***************************************************************************)
\* WakeWordMatcher.match(text).matched for the transcripts of the model
Matched(text) == text = "hi dee, start recording"

\* String.prototype.trim for the transcripts of the model
Trim(text) == IF text = "   " THEN "" ELSE text

\* faulty variant of the transcript handler: it does not look at the status
onTranscriptAnyStatus(w, data) ==
  LET text == Trim(data.text)
  IN IF text = "" THEN w
     ELSE LET w1 == Note([w EXCEPT !.currentTranscript = text], "transcript")
          IN IF Matched(text) THEN handleWakeWordDetected(w1) ELSE w1

\* googleSpeech.on("transcript")
onTranscript(w, data) ==
  IF w.status # "listening" THEN w
  ELSE LET text == Trim(data.text)
       IN IF text = "" THEN w
          ELSE LET w1 == Note([w EXCEPT !.currentTranscript = text], "transcript")
               IN IF Matched(text) THEN handleWakeWordDetected(w1) ELSE w1

startSilenceCheck(w) == [w EXCEPT !.silenceCheckInterval = "armed"]

startCommandTimeout(w) == startSilenceCheck([w EXCEPT !.commandTimeout = "armed"])

\* googleSpeech.on("transcript") of the stt orchestrator
handleTranscript(w, data) ==
  LET text == Trim(data.text)
  IN IF text = "" THEN w
     ELSE LET w0 == Note(w, "transcript")
          IN IF w0.status = "listening"
             THEN LET w1 == [w0 EXCEPT !.currentTranscript = text]
                  IN IF Matched(text)
                     THEN LET w2 == setStatus(stopStream(w1), "wake_detected")
                              w3 == Note([w2 EXCEPT !.commandTranscript = ""],
                                         "wakeDetected")
                          IN startCommandTimeout(setTimeout(w3, "freshStream"))
                     ELSE w1
             ELSE IF w0.status = "wake_detected"
             THEN LET w1 == [w0 EXCEPT !.commandTranscript = text,
                                       !.silent = FALSE]
                  IN IF data.isFinal THEN captureCommand(w1, text) ELSE w1
             ELSE w0

\* googleSpeech.on("error") of the stt orchestrator
sttOnGoogleSpeechError(w) ==
  IF w.isRunning /\ w.status # "error" THEN setTimeout(w, "errorRecovery") ELSE w

\* the callback of commandTimeout
onCommandTimeout(w) ==
  IF w.status = "wake_detected"
  THEN IF w.commandTranscript # ""
       THEN captureCommand(w, w.commandTranscript)
       ELSE resetToListening(w)
  ELSE w

\* the callbacks of the timers whose handle is dropped
onTimeout(w, kind) ==
  CASE kind = "speechEndStop" ->
         IF w.status \in {"idle", "listening"}
         THEN [stopStream(w) EXCEPT !.currentTranscript = ""] ELSE w
    [] kind = "freshStream" ->
         IF w.status = "wake_detected" /\ w.isRunning THEN startStream(w) ELSE w
    [] kind = "captureReset" -> resetToListening(w)
    [] kind = "errorRecovery" ->
         IF w.isRunning THEN stopStream(w) ELSE w

\* this.emit("transcript") and this.emit("error") of GoogleSpeechService
emitTranscript(w, data) ==
  IF w.mode = "stt" THEN handleTranscript(w, data) ELSE onTranscript(w, data)

emitError(w) ==
  IF w.mode = "stt" THEN sttOnGoogleSpeechError(Note(w, "speechError"))
  ELSE Note(w, "speechError")

RECURSIVE handleResponse(_, _)
\* GoogleSpeechService.handleResponse: one transcript event per result
handleResponse(w, results) ==
  IF Len(results) = 0 THEN w
  ELSE LET result == Head(results)
           w1 == IF ~result.alt THEN w ELSE emitTranscript(w, result)
       IN handleResponse(w1, Tail(results))

\* audioCapture.on("error")
onAudioCaptureError(w) == setStatus(Note(w, "error"), "error")

\* audioCapture.on("data")
onAudioData(w, chunk) ==
  LET w1 == process(w, chunk)
  IN IF w.mode = "stt" THEN w1
     ELSE IF w.mode = "batch"
     THEN IF w1.status = "command_window" /\ w1.isRecording
          THEN addAudioChunk(w1, chunk.id) ELSE w1
     ELSE IF w1.status = "wake_detected" /\ w1.isConnected
          THEN sendAudio(NoteChunk(w1, "sendAudio", chunk.id), chunk.id) ELSE w1

\* AudioCapture.start / AudioCapture.stop
captureStart(w, ok) ==
  IF w.isCapturing THEN w
  ELSE IF ok THEN Note([w EXCEPT !.isCapturing = TRUE], "started")
  ELSE onAudioCaptureError(w)

captureStop(w) ==
  IF ~w.isCapturing THEN w
  ELSE Note([w EXCEPT !.isCapturing = FALSE], "stopped")

start(w, ok) ==
  IF w.isRunning THEN w
  ELSE captureStart(setStatus([w EXCEPT !.isRunning = TRUE], "idle"), ok)

stopBatch(w) ==
  LET w1 == [w EXCEPT !.isRunning = FALSE, !.silenceTimer = clearAndNull(@),
                      !.recordingTimer = clearAndNull(@)]
      w2 == reset(clear(stopStream(captureStop(w1))))
  IN [setStatus(w2, "idle") EXCEPT !.speechBuffer = << >>,
                                    !.currentTranscript = ""]

stopLive(w) ==
  LET w1 == [w EXCEPT !.isRunning = FALSE, !.silenceTimer = clearAndNull(@)]
      w2 == reset(endSession(stopStream(captureStop(w1))))
  IN [setStatus(w2, "idle") EXCEPT !.speechBuffer = << >>,
                                    !.currentTranscript = ""]

stopStt(w) ==
  LET w1 == [w EXCEPT !.isRunning = FALSE, !.commandTimeout = clearAndNull(@),
                      !.silenceCheckInterval = clearAndNull(@)]
      w2 == reset(stopStream(captureStop(w1)))
  IN [setStatus(w2, "idle") EXCEPT !.commandTranscript = "",
                                    !.currentTranscript = ""]

stop(w) ==
  IF w.mode = "batch" THEN stopBatch(w)
  ELSE IF w.mode = "stt" THEN stopStt(w)
  ELSE stopLive(w)

\* the silence timer set by the speechEnd handler
onSilenceTimer(w) == IF w.status = "listening" THEN resetToIdle(w) ELSE w

\* the backup recording timer set by handleWakeWordDetected (batch)
onRecordingTimer(w) ==
  IF w.isRecording
  THEN processCommand(setStatus(stopRecording(w), "processing"))
  ELSE w

\* processCommand() after speakText() settles
afterSpeakText(w, run) ==
  resetToIdle(IF run.tool THEN Note(w, "toolCall") ELSE w)

\* the callbacks of a Gemini Live session
onLiveClose(w) ==
  LET w1 == Note([w EXCEPT !.isConnected = FALSE, !.session = "null"],
                 "disconnected")
  IN IF w1.status = "wake_detected" THEN resetToIdle(w1) ELSE w1

handleMessage(w, m) ==
  LET w1 == IF "text" \in m THEN Note(w, "geminiResponse") ELSE w
      w2 == IF "emr" \in m
            THEN endSession(Note(Note(w1, "geminiResponse"), "toolCall"))
            ELSE w1
      w3 == IF "turnComplete" \in m
            THEN resetToIdle(Note(w2, "turnComplete")) ELSE w2
  IN IF "audio" \in m THEN Note(w3, "geminiAudio") ELSE w3

(***************************************************************************)
(* Inputs                                                                  *)
(***************************************************************************)
FrameSeqs == UNION { [1..n -> BOOLEAN] : n \in 1..MaxFramesPerChunk }

Chunks == { [id |-> 1, frames |-> f] : f \in FrameSeqs }

Texts == { "   ", "completely unrelated sentence", "hi dee, start recording" }

Results ==
  { [alt |-> TRUE, text |-> t, isFinal |-> f] : t \in Texts, f \in BOOLEAN }
  \cup { [alt |-> FALSE, text |-> "   ", isFinal |-> FALSE] }

Responses == UNION { [1..n -> Results] : n \in 0..MaxResults }

Messages == (SUBSET {"text", "emr", "turnComplete", "audio"}) \ { {} }

Remove(seq, i) == SubSeq(seq, 1, i - 1) \o SubSeq(seq, i + 1, Len(seq))

Stale == provEnding + provZombies

WakeIn(results) ==
  \E i \in 1..Len(results) : results[i].alt /\ Matched(Trim(results[i].text))

\* the first entry of the log names the callback and the status it found
Begin(e, fail) == Note([World EXCEPT !.fail = fail], e)

\* the same, recording a value the callback found
BeginWith(e, fail, c) == NoteChunk([World EXCEPT !.fail = fail], e, c)

(***************************************************************************)
(* Actions: one per callback                                               *)
(***************************************************************************)
\* the fields as the constructors leave them
Constructed ==
  /\ status = "idle"
  /\ isRunning = FALSE
  /\ currentTranscript = ""
  /\ speechBuffer = << >>
  /\ speechOver = TRUE
  /\ silenceTimer = "null"
  /\ recordingTimer = "null"
  /\ isCapturing = FALSE
  /\ vadState = "silence"
  /\ vadBuffer = << >>
  /\ consecutiveFrames = 0
  /\ stream = "null"
  /\ isStreaming = FALSE
  /\ reconnectTimer = "null"
  /\ pendingAudio = << >>
  /\ provEnding = 0
  /\ provZombies = 0
  /\ isRecording = FALSE
  /\ audioBuffer = << >>
  /\ recOver = TRUE
  /\ procPending = << >>
  /\ speakPending = << >>
  /\ session = "null"
  /\ isConnected = FALSE
  /\ liveAudioBuffer = << >>
  /\ glConnecting = 0
  /\ glClosing = 0
  /\ glOrphans = 0
  /\ commandTranscript = ""
  /\ commandTimeout = "null"
  /\ silenceCheckInterval = "null"
  /\ timeouts = << >>
  /\ log = << >>
  /\ statusTrail = << >>
  /\ cmdRuns = 0
  /\ cmdResponses = 0
  /\ nextChunk = 1

Init ==
  /\ mode \in {"batch", "live"}
  /\ initialized = FALSE
  /\ Constructed

Initialize ==
  /\ ~initialized
  /\ Step([Begin("initialize", 0) EXCEPT !.initialized = TRUE])

Start ==
  /\ initialized
  /\ \E ok \in BOOLEAN : Step(start(Begin("start", 0), ok))

\* a callback pending when stop() is called belongs to the run that ended
Outlived(w) ==
  [w EXCEPT !.timeouts = [i \in 1..Len(@) |-> [@[i] EXCEPT !.stale = TRUE]]]

Stop == Step(Outlived(stop(Begin("stop", 0))))

\* the clock readings a callback of the stt orchestrator can find
Silences == IF mode = "stt" THEN BOOLEAN ELSE { FALSE }

AudioData ==
  /\ isCapturing
  /\ \E chunk \in Chunks, fail \in 0..1, silent \in Silences :
       Step(onAudioData([Begin("audioData", fail) EXCEPT !.silent = silent],
                        chunk))

AudioError ==
  /\ isCapturing
  /\ Step(onAudioCaptureError(Begin("audioError", 0)))

StreamData ==
  /\ stream = "open"
  /\ \E results \in Responses :
       /\ Step(handleResponse(Begin("streamData", 0), results))

StreamError ==
  /\ stream = "open"
  /\ Step(handleStreamEnd(emitError(Begin("streamError", 0))))

StreamEnd ==
  /\ stream = "open"
  /\ Step(handleStreamEnd(Begin("streamEndEvent", 0)))

\* what a late event of an earlier stream finds of the current stream
Current ==
  [stream |-> stream, isStreaming |-> isStreaming,
   reconnectTimer |-> reconnectTimer]

\* a stream the service ended or lost delivers "data"
StaleStreamData ==
  /\ Stale > 0
  /\ \E results \in Responses :
       /\ Step(handleResponse(BeginWith("staleStreamData", 0, Current), results))

\* a stream the service ended or lost delivers "end" or "error": the stream
\* the service references now, if any, stays open at the provider
StaleStreamCloses ==
  \E src \in {"ending", "zombie"}, err \in BOOLEAN :
    /\ IF src = "ending" THEN provEnding > 0 ELSE provZombies > 0
    /\ LET w0 == BeginWith("staleStreamCloses", 0, Current)
           w1 == IF src = "ending" THEN [w0 EXCEPT !.provEnding = @ - 1]
                 ELSE [w0 EXCEPT !.provZombies = @ - 1]
           w2 == IF w1.stream = "open" THEN [w1 EXCEPT !.provZombies = @ + 1]
                 ELSE w1
           w3 == IF err THEN emitError(w2) ELSE w2
       IN Step(handleStreamEnd(w3))

SilenceTimerFire ==
  /\ silenceTimer = "armed"
  /\ Step(onSilenceTimer([Begin("silenceTimer", 0) EXCEPT !.silenceTimer = "spent"]))

RecordingTimerFire ==
  /\ recordingTimer = "armed"
  /\ recOver
  /\ Step(onRecordingTimer(
              [Begin("recordingTimer", 0) EXCEPT !.recordingTimer = "spent"]))

ReconnectTimerFire ==
  /\ reconnectTimer = "armed"
  /\ \E fail \in 0..1 :
       Step(startStream([Begin("reconnectTimer", fail) EXCEPT !.reconnectTimer = "spent"]))

CommandTimeoutFire ==
  /\ commandTimeout = "armed"
  /\ Step(onCommandTimeout(
              [Begin("commandTimeout", 0) EXCEPT !.commandTimeout = "spent"]))

SilenceCheckFire ==
  /\ silenceCheckInterval = "armed"
  /\ \E silent \in BOOLEAN :
       Step(checkSilenceTimeout(
                [Begin("silenceCheck", 0) EXCEPT !.silent = silent]))

\* a timer whose handle was dropped fires; the first log entry records the
\* timer and the stream reference it found
TimeoutFire ==
  \E i \in 1..Len(timeouts), fail \in 0..1 :
    Step(onTimeout(
             [BeginWith("timeout", fail,
                        [kind |-> timeouts[i].kind, stale |-> timeouts[i].stale,
                         stream |-> stream])
                EXCEPT !.timeouts = Remove(@, i)],
             timeouts[i].kind))

\* more than maxSpeechDuration has passed since speechStartTime
SpeechDurationElapses ==
  /\ status = "listening"
  /\ ~speechOver
  /\ Step([World EXCEPT !.speechOver = TRUE, !.log = log])

\* recordingDuration has passed since recordingStartTime
RecordingDurationElapses ==
  /\ isRecording \/ recordingTimer = "armed"
  /\ ~recOver
  /\ Step([World EXCEPT !.recOver = TRUE, !.log = log])

ProcessAudioSettles ==
  \E i \in 1..Len(procPending) :
    \E outcome \in {"tool", "none", "null", "error"} :
      Step(afterProcessAudio(
               [Begin("processAudioSettles", 0) EXCEPT !.procPending = Remove(@, i)],
               procPending[i], outcome))

SpeakTextSettles ==
  \E i \in 1..Len(speakPending) :
    Step(afterSpeakText(
             [Begin("speakTextSettles", 0) EXCEPT !.speakPending = Remove(@, i)],
             speakPending[i]))

\* ai.live.connect() settles: onopen runs, then startSession() resumes and
\* stores the session; or it rejects and handleWakeWordDetected catches
LiveConnectSettles ==
  /\ glConnecting > 0
  /\ \E ok \in BOOLEAN :
       LET w0 == [Begin("liveConnectSettles", 0) EXCEPT !.glConnecting = @ - 1]
       IN IF ok
          THEN LET w1 == Note([w0 EXCEPT !.isConnected = TRUE], "connected")
                   w2 == IF w1.session = "open"
                         THEN [w1 EXCEPT !.glOrphans = @ + 1] ELSE w1
               IN Step([w2 EXCEPT !.session = "open"])
          ELSE Step(resetToIdle(Note(w0, "error")))

LiveMessage ==
  /\ session = "open"
  /\ isConnected
  /\ \E m \in Messages : Step(handleMessage(Begin("liveMessage", 0), m))

LiveError ==
  /\ session = "open"
  /\ Step(resetToIdle(Note(Begin("liveError", 0), "geminiError")))

\* onclose of the referenced session, of one closed by close(), or of one
\* that lost its reference; the first log entry records which, and the
\* session fields the callback found
LiveClose ==
  \E src \in {"current", "closing", "orphan"} :
    /\ CASE src = "current" -> session = "open"
         [] src = "closing" -> glClosing > 0
         [] src = "orphan" -> glOrphans > 0
    /\ LET w0 == BeginWith("liveClose", 0,
                           [src |-> src, session |-> session,
                            isConnected |-> isConnected,
                            glConnecting |-> glConnecting])
           w1 == CASE src = "current" -> w0
                   [] src = "closing" -> [w0 EXCEPT !.glClosing = @ - 1]
                   [] src = "orphan" -> [w0 EXCEPT !.glOrphans = @ - 1]
           w2 == IF src # "current" /\ w1.session = "open"
                 THEN [w1 EXCEPT !.glOrphans = @ + 1] ELSE w1
       IN Step(onLiveClose(w2))

\* the running callback returns to the event loop; what it was observed to do
\* is dropped
CallbackReturns == log # << >> /\ Assign(World)

Next ==
  \/ CallbackReturns
  \/ Initialize
  \/ Start
  \/ Stop
  \/ AudioData
  \/ AudioError
  \/ StreamData
  \/ StreamError
  \/ StreamEnd
  \/ StaleStreamData
  \/ StaleStreamCloses
  \/ SilenceTimerFire
  \/ RecordingTimerFire
  \/ ReconnectTimerFire
  \/ SpeechDurationElapses
  \/ RecordingDurationElapses
  \/ ProcessAudioSettles
  \/ SpeakTextSettles
  \/ LiveConnectSettles
  \/ LiveMessage
  \/ LiveError
  \/ LiveClose

Spec == Init /\ [][Next]_vars

(***************************************************************************)
(* GoogleSpeechService on its own, driven by a client that calls           *)
(* startStream / write / stopStream directly and numbers its chunks        *)
(* (chunk 0 is an empty Buffer)                                            *)
(***************************************************************************)
InitGS ==
  /\ mode = "batch"
  /\ initialized = TRUE
  /\ Constructed

ApiStartStream ==
  /\ log = << >>
  /\ provEnding + provZombies < MaxStale \/ stream = "null"
  /\ \E fail \in 0..2 :
       Commit(startStream(BeginWith("apiStartStream", fail, pendingAudio)))

ApiWrite ==
  /\ log = << >>
  /\ nextChunk <= MaxWrites
  /\ \E c \in {0, nextChunk}, fail \in 0..1 :
       /\ fail = 1 => provEnding + provZombies < MaxStale
       /\ Commit(write([BeginWith("apiWrite", fail, c)
                          EXCEPT !.nextChunk = @ + 1], c))

ApiStopStream ==
  /\ log = << >>
  /\ provEnding + provZombies < MaxStale \/ stream = "null"
  /\ Commit(stopStream(Begin("apiStopStream", 0)))

NextGS ==
  \/ CallbackReturns
  \/ ApiStartStream
  \/ ApiWrite
  \/ ApiStopStream
  \/ StreamError
  \/ StreamEnd
  \/ StaleStreamCloses
  \/ ReconnectTimerFire

SpecGS == InitGS /\ [][NextGS]_vars

(***************************************************************************)
(* A VAD on its own: a client calls process() and, between calls, reset()  *)
(***************************************************************************)
InitStt ==
  /\ mode = "stt"
  /\ initialized = FALSE
  /\ Constructed

NextStt ==
  \/ CallbackReturns
  \/ Initialize
  \/ Start
  \/ Stop
  \/ AudioData
  \/ AudioError
  \/ StreamData
  \/ StreamError
  \/ StreamEnd
  \/ StaleStreamData
  \/ StaleStreamCloses
  \/ ReconnectTimerFire
  \/ CommandTimeoutFire
  \/ SilenceCheckFire
  \/ TimeoutFire

SpecStt == InitStt /\ [][NextStt]_vars

InitVAD ==
  /\ mode = "vad"
  /\ initialized = FALSE
  /\ Constructed

VadFrameSeqs == UNION { [1..n -> BOOLEAN] : n \in 1..MaxVadFrames }

\* the first log entry records the state process() found and the frames
VadProcess ==
  /\ log = << >>
  /\ \E frames \in VadFrameSeqs :
       Commit(process(BeginWith("vadProcess", 0,
                                [state |-> vadState, count |-> consecutiveFrames,
                                 frames |-> frames]),
                      [id |-> 1, frames |-> frames]))

VadReset ==
  /\ log = << >>
  /\ Commit(reset(Begin("vadReset", 0)))

NextVAD ==
  \/ CallbackReturns
  \/ VadProcess
  \/ VadReset

SpecVAD == InitVAD /\ [][NextVAD]_vars

(***************************************************************************)
(* A VAD on its own fed chunks of any byte length; nextChunk numbers the   *)
(* next byte, and reset() is never called                                  *)
(***************************************************************************)
\* the first log entry records the remainder process() found and the bytes
\* received before the call
VadProcessBytes ==
  /\ log = << >>
  /\ \E n \in 0..MaxChunkBytes :
       /\ nextChunk + n - 1 <= MaxBytes
       /\ \E loud \in [1..n -> BOOLEAN] :
            Commit(processBytes(
                     [BeginWith("vadProcessBytes", 0,
                                [rem |-> vadBuffer, total |-> nextChunk - 1])
                        EXCEPT !.nextChunk = @ + n],
                     [i \in 1..n |-> [n |-> nextChunk + i - 1, loud |-> loud[i]]]))

NextFrames ==
  \/ CallbackReturns
  \/ VadProcessBytes

SpecFrames == InitVAD /\ [][NextFrames]_vars

(***************************************************************************)
(* GoogleSpeechService driven by a client that keeps writing numbered      *)
(* chunks while no stream is open, past the cap of pendingAudio            *)
(***************************************************************************)
ApiWriteBurst ==
  /\ log = << >>
  /\ stream = "null"
  /\ nextChunk <= MaxBurst
  /\ Commit(write([BeginWith("apiWrite", 0, nextChunk)
                     EXCEPT !.nextChunk = @ + 1], nextChunk))

NextBurst ==
  \/ CallbackReturns
  \/ ApiWriteBurst
  \/ ApiStartStream
  \/ ApiStopStream

SpecBurst == InitGS /\ [][NextBurst]_vars

(***************************************************************************)
(* WakeWordMatcher.  A string is a sequence of one-character strings, so   *)
(* that case folding, trimming, searching, splitting and the edit distance *)
(* are computed character by character as the library functions do.  A     *)
(* number that the code holds as a fraction of one is the record           *)
(* [num, den]; for phrases and candidates shorter than sixty characters    *)
(* the double-precision score of calculateSimilarity is on the same side   *)
(* of the default threshold as the exact fraction.                         *)
(***************************************************************************)
UpperCase == << "A", "B", "C", "D", "E", "F", "G", "H", "I", "J", "K", "L", "M",
               "N", "O", "P", "Q", "R", "S", "T", "U", "V", "W", "X", "Y", "Z" >>

LowerCase == << "a", "b", "c", "d", "e", "f", "g", "h", "i", "j", "k", "l", "m",
               "n", "o", "p", "q", "r", "s", "t", "u", "v", "w", "x", "y", "z" >>

\* the characters that \s matches among those of the transcripts
WhiteSpace == { " " }

Frac(n, d) == [num |-> n, den |-> d]

\* a >= b for fractions with positive denominators
FracGeq(a, b) == a.num * b.den >= b.num * a.den

LetterIndex(alphabet, c) ==
  IF \E k \in 1..26 : alphabet[k] = c
  THEN CHOOSE k \in 1..26 : alphabet[k] = c
  ELSE 0

toLowerCase(s) ==
  [i \in 1..Len(s) |->
     IF LetterIndex(UpperCase, s[i]) # 0
     THEN LowerCase[LetterIndex(UpperCase, s[i])] ELSE s[i]]

toUpperCase(s) ==
  [i \in 1..Len(s) |->
     IF LetterIndex(LowerCase, s[i]) # 0
     THEN UpperCase[LetterIndex(LowerCase, s[i])] ELSE s[i]]

\* the number of white-space characters of s from position i on (1-based)
RECURSIVE spaceRun(_, _)
spaceRun(s, i) ==
  IF i <= Len(s) /\ s[i] \in WhiteSpace THEN 1 + spaceRun(s, i + 1) ELSE 0

\* the number of white-space characters of s that end at position i
RECURSIVE spaceRunBack(_, _)
spaceRunBack(s, i) ==
  IF i >= 1 /\ s[i] \in WhiteSpace THEN 1 + spaceRunBack(s, i - 1) ELSE 0

trim(s) ==
  IF spaceRun(s, 1) = Len(s) THEN << >>
  ELSE SubSeq(s, 1 + spaceRun(s, 1), Len(s) - spaceRunBack(s, Len(s)))

\* String.prototype.substring(from), from counted from 0
substring(s, from) == SubSeq(s, from + 1, Len(s))

\* pattern p stands in s at offset i, counted from 0
startsWithAt(s, p, i) ==
  i + Len(p) <= Len(s) /\ SubSeq(s, i + 1, i + Len(p)) = p

\* String.prototype.indexOf: the least offset of p in s, -1 if there is none
indexOf(s, p) ==
  LET at == { i \in 0..(Len(s) - Len(p)) : startsWithAt(s, p, i) }
  IN IF at = {} THEN -1 ELSE CHOOSE i \in at : \A j \in at : i <= j

\* the number of characters of s from position i up to the next white space
wordRun(s, i) ==
  LET stops == { j \in i..Len(s) : s[j] \in WhiteSpace }
  IN IF stops = {} THEN Len(s) + 1 - i
     ELSE (CHOOSE j \in stops : \A k \in stops : j <= k) - i

\* String.prototype.split(/\s+/): the pieces of s from position i on
RECURSIVE splitFrom(_, _)
splitFrom(s, i) ==
  LET n == wordRun(s, i)
      word == SubSeq(s, i, i + n - 1)
  IN IF i + n > Len(s) THEN << word >>
     ELSE << word >> \o splitFrom(s, i + n + spaceRun(s, i + n))

split(s) == splitFrom(s, 1)

\* Array.prototype.join(' ') of words[from..], from counted from 0
RECURSIVE joinFrom(_, _)
joinFrom(words, from) ==
  IF from >= Len(words) THEN << >>
  ELSE IF from = Len(words) - 1 THEN words[from + 1]
       ELSE words[from + 1] \o << " " >> \o joinFrom(words, from + 1)

\* DEFAULT_CONFIG.wakeWords
DefaultWakeWords ==
  << << "h", "i", " ", "d", "e", "e" >>,
     << "h", "i", " ", "d" >>,
     << "h", "e", "i", "d", "i" >>,
     << "h", "e", "y", " ", "d", "e", "e" >>,
     << "h", "e", "y", " ", "d" >>,
     << "h", "e", "d", "y" >>,
     << "h", "i", "d", "e", " ", "e" >>,
     << "h", "y", "d", "i", "e" >>,
     << "h", "e", "y", "d", "e", "e" >>,
     << "h", "i", " ", "d", "i" >>,
     << "h", "e", "y", " ", "d", "i" >> >>

\* the constructor lower-cases and trims the configured phrases
wakeWords ==
  [k \in 1..Len(DefaultWakeWords) |-> trim(toLowerCase(DefaultWakeWords[k]))]

\* DEFAULT_CONFIG.wakeWordThreshold, 0.55
threshold == Frac(55, 100)

Min3(x, y, z) ==
  IF x <= y /\ x <= z THEN x ELSE IF y <= z THEN y ELSE z

\* one row of the distance matrix: prev is the row above, bc the character
\* of b the row belongs to, row the cells filled so far (column j of the
\* matrix is element j + 1)
RECURSIVE levenshteinRow(_, _, _, _)
levenshteinRow(prev, a, bc, row) ==
  IF Len(row) = Len(a) + 1 THEN row
  ELSE LET j == Len(row)
           cell == IF bc = a[j] THEN prev[j]
                   ELSE Min3(prev[j] + 1, row[j] + 1, prev[j + 1] + 1)
       IN levenshteinRow(prev, a, bc, Append(row, cell))

\* the loop over the rows: matrix holds the rows filled so far (row i of the
\* matrix is element i + 1)
RECURSIVE levenshteinRows(_, _, _)
levenshteinRows(a, b, matrix) ==
  IF Len(matrix) = Len(b) + 1 THEN matrix[Len(b) + 1][Len(a) + 1]
  ELSE levenshteinRows(a, b,
         Append(matrix,
                levenshteinRow(matrix[Len(matrix)], a, b[Len(matrix)],
                               << Len(matrix) >>)))

levenshteinDistance(a, b) ==
  levenshteinRows(a, b, << [j \in 1..(Len(a) + 1) |-> j - 1] >>)

levenshteinSimilarity(a, b) ==
  LET maxLength == IF Len(a) >= Len(b) THEN Len(a) ELSE Len(b)
  IN IF maxLength = 0 THEN Frac(1, 1)
     ELSE Frac(maxLength - levenshteinDistance(a, b), maxLength)

\* the phonetic class of a letter, "" for a letter without one
phoneticMap(c) ==
  IF c \in { "b", "f", "p", "v" } THEN "1"
  ELSE IF c \in { "c", "g", "j", "k", "q", "s", "x", "z" } THEN "2"
  ELSE IF c \in { "d", "t" } THEN "3"
  ELSE IF c = "l" THEN "4"
  ELSE IF c \in { "m", "n" } THEN "5"
  ELSE IF c = "r" THEN "6"
  ELSE ""

RECURSIVE phoneticLoop(_, _, _, _)
phoneticLoop(w, i, code, lastCode) ==
  IF i > Len(w) THEN code
  ELSE LET c == phoneticMap(w[i])
       IN IF c # "" /\ c # lastCode THEN phoneticLoop(w, i + 1, Append(code, c), c)
          ELSE IF c = "" THEN phoneticLoop(w, i + 1, code, "")
          ELSE phoneticLoop(w, i + 1, code, lastCode)

\* String.prototype.padEnd(4, '0') of the first four characters
padEnd4(code) ==
  [i \in 1..4 |-> IF i <= Len(code) THEN code[i] ELSE "0"]

phoneticCode(word) ==
  LET w == SelectSeq(toLowerCase(word), LAMBDA c : LetterIndex(LowerCase, c) # 0)
  IN IF w = << >> THEN << >>
     ELSE padEnd4(phoneticLoop(w, 2, toUpperCase(<< w[1] >>), phoneticMap(w[1])))

phoneticSimilarity(a, b) ==
  LET codeA == phoneticCode(a)
      codeB == phoneticCode(b)
      minLen == IF Len(codeA) <= Len(codeB) THEN Len(codeA) ELSE Len(codeB)
      maxLen == IF Len(codeA) >= Len(codeB) THEN Len(codeA) ELSE Len(codeB)
      matches == Cardinality({ i \in 1..minLen : codeA[i] = codeB[i] })
  IN IF codeA = codeB THEN Frac(1, 1) ELSE Frac(matches, maxLen)

\* the first of the alternatives alts (in the order written) that stands at
\* the start of s, compared without case; 0 if none does
firstPrefix(s, alts) ==
  LET found == { k \in 1..Len(alts) : startsWithAt(toLowerCase(s), alts[k], 0) }
  IN IF found = {} THEN 0 ELSE CHOOSE k \in found : \A j \in found : k <= j

\* replace(/^(hi|hey|hy|high)\s*/i, 'HI')
replaceGreeting(s) ==
  LET alts == << << "h", "i" >>,
                 << "h", "e", "y" >>,
                 << "h", "y" >>,
                 << "h", "i", "g", "h" >> >>
      k == firstPrefix(s, alts)
  IN IF k = 0 THEN s
     ELSE << "H", "I" >>
            \o substring(s, Len(alts[k]) + spaceRun(s, Len(alts[k]) + 1))

\* replace(/\s*(dee|di|dy|d|de|the|thee)$/i, 'DEE'): the leftmost offset from
\* which white space and then one alternative reach the end of s
replaceEnding(s) ==
  LET alts == { << "d", "e", "e" >>,
               << "d", "i" >>,
               << "d", "y" >>,
               << "d" >>,
               << "d", "e" >>,
               << "t", "h", "e" >>,
               << "t", "h", "e", "e" >> }
      at == { p \in 0..Len(s) :
                \E k \in 0..(Len(s) - p) :
                  /\ \A i \in (p + 1)..(p + k) : s[i] \in WhiteSpace
                  /\ substring(toLowerCase(s), p + k) \in alts }
  IN IF at = {} THEN s
     ELSE SubSeq(s, 1, CHOOSE p \in at : \A q \in at : p <= q)
            \o << "D", "E", "E" >>

\* replace(/^(heidi|hedy|hydie|haidee|haydi|heedy|hide|hidey?)$/i, 'HIDEE')
replaceWhole(s) ==
  IF toLowerCase(s) \in { << "h", "e", "i", "d", "i" >>,
                       << "h", "e", "d", "y" >>,
                       << "h", "y", "d", "i", "e" >>,
                       << "h", "a", "i", "d", "e", "e" >>,
                       << "h", "a", "y", "d", "i" >>,
                       << "h", "e", "e", "d", "y" >>,
                       << "h", "i", "d", "e" >>,
                       << "h", "i", "d", "e", "y" >> }
  THEN << "H", "I", "D", "E", "E" >> ELSE s

\* replace(/^(hide|heyd|hayd)/i, 'HIDEE')
replaceCombined(s) ==
  LET alts == << << "h", "i", "d", "e" >>,
                 << "h", "e", "y", "d" >>,
                 << "h", "a", "y", "d" >> >>
      k == firstPrefix(s, alts)
  IN IF k = 0 THEN s
     ELSE << "H", "I", "D", "E", "E" >> \o substring(s, Len(alts[k]))

normalizePhonetics(text) ==
  SelectSeq(replaceCombined(replaceWhole(replaceEnding(replaceGreeting(
              trim(toLowerCase(text)))))),
            LAMBDA c : c \notin WhiteSpace)

soundsLike(a, b) == normalizePhonetics(a) = normalizePhonetics(b)

\* levenshteinSim * 0.3 + phoneticSim * 0.4 + (soundsSimilar ? 0.3 : 0)
calculateSimilarity(a, b) ==
  LET l == levenshteinSimilarity(a, b)
      p == phoneticSimilarity(a, b)
      s == IF soundsLike(a, b) THEN 1 ELSE 0
  IN Frac(3 * l.num * p.den + 4 * p.num * l.den + 3 * s * l.den * p.den,
          10 * l.den * p.den)

\* every single word, then every pair of adjacent words, each with the text
\* that follows it
extractPotentialWakeWords(text) ==
  LET words == split(text)
  IN [i \in 1..Len(words) |->
        [text |-> words[i], remaining |-> joinFrom(words, i)]]
     \o [i \in 1..(Len(words) - 1) |->
           [text |-> words[i] \o << " " >> \o words[i + 1],
            remaining |-> joinFrom(words, i + 1)]]

NoMatch(transcript) ==
  [matched |-> FALSE, matchedPhrase |-> << >>, matchedWakeWord |-> << >>,
   confidence |-> Frac(0, 1), remainingText |-> transcript]

\* the exact branch picks the phrase that comes first in the transcript
\* instead of the first configured phrase the transcript contains
exactMatchEarliest(normalized, k) ==
  LET found == { j \in 1..Len(wakeWords) : indexOf(normalized, wakeWords[j]) # -1 }
      j == CHOOSE x \in found :
             \A y \in found : \/ indexOf(normalized, wakeWords[x])
                                < indexOf(normalized, wakeWords[y])
                           \/ /\ indexOf(normalized, wakeWords[x])
                                   = indexOf(normalized, wakeWords[y])
                              /\ x <= y
  IN IF found = {} THEN NoMatch(normalized)
     ELSE [matched |-> TRUE, matchedPhrase |-> wakeWords[j],
           matchedWakeWord |-> wakeWords[j], confidence |-> Frac(1, 1),
           remainingText |->
             trim(substring(normalized,
                            indexOf(normalized, wakeWords[j]) + Len(wakeWords[j])))]

\* the loop over the configured phrases from phrase k on; not matched if no
\* phrase is a substring
RECURSIVE exactMatch(_, _)
exactMatch(normalized, k) ==
  IF k > Len(wakeWords) THEN NoMatch(normalized)
  ELSE LET wakeWord == wakeWords[k]
           index == indexOf(normalized, wakeWord)
       IN IF index # -1
          THEN [matched |-> TRUE, matchedPhrase |-> wakeWord,
                matchedWakeWord |-> wakeWord, confidence |-> Frac(1, 1),
                remainingText |->
                  trim(substring(normalized, index + Len(wakeWord)))]
          ELSE exactMatch(normalized, k + 1)

\* the fuzzy loops compare with > where the code compares with >=
fuzzyMatchStrict(transcript, candidates, c, k) ==
  LET hits == { p \in (1..Len(candidates)) \X (1..Len(wakeWords)) :
                  LET sim == calculateSimilarity(candidates[p[1]].text,
                                                 wakeWords[p[2]])
                  IN FracGeq(sim, threshold) /\ ~FracGeq(threshold, sim) }
      h == CHOOSE p \in hits :
             \A q \in hits : p[1] < q[1] \/ (p[1] = q[1] /\ p[2] <= q[2])
  IN IF hits = {} THEN NoMatch(transcript)
     ELSE [matched |-> TRUE, matchedPhrase |-> candidates[h[1]].text,
           matchedWakeWord |-> wakeWords[h[2]],
           confidence |-> calculateSimilarity(candidates[h[1]].text,
                                              wakeWords[h[2]]),
           remainingText |-> candidates[h[1]].remaining]

\* the inner loop, over the configured phrases from phrase k on: the first
\* phrase whose similarity to the candidate text reaches the threshold, 0 if
\* none does
firstWakeWord(text, k) ==
  LET reached == { j \in k..Len(wakeWords) :
                     FracGeq(calculateSimilarity(text, wakeWords[j]), threshold) }
  IN IF reached = {} THEN 0 ELSE CHOOSE j \in reached : \A i \in reached : j <= i

\* the nested loops from candidate c and phrase k on
RECURSIVE fuzzyMatch(_, _, _, _)
fuzzyMatch(transcript, candidates, c, k) ==
  IF c > Len(candidates) THEN NoMatch(transcript)
  ELSE LET hit == firstWakeWord(candidates[c].text, k)
       IN IF hit # 0
          THEN [matched |-> TRUE, matchedPhrase |-> candidates[c].text,
                matchedWakeWord |-> wakeWords[hit],
                confidence |-> calculateSimilarity(candidates[c].text,
                                                   wakeWords[hit]),
                remainingText |-> candidates[c].remaining]
          ELSE fuzzyMatch(transcript, candidates, c + 1, 1)

match(transcript) ==
  LET normalized == trim(toLowerCase(transcript))
      exact == exactMatch(normalized, 1)
  IN IF exact.matched THEN exact
     ELSE fuzzyMatch(transcript, extractPotentialWakeWords(normalized), 1, 1)

\* the transcripts handed to match(): up to MaxWords words of Vocabulary
\* separated by one space, the same with the spaces doubled and white space
\* around, and two spoken sentences
MaxWords == 3

Vocabulary ==
  { << "h", "i" >>,
    << "D", "e", "e" >>,
    << "d", "e", "e", "," >>,
    << "h", "e", "i", "d", "i" >>,
    << "h", "y" >>,
    << "d", "y" >>,
    << "h", "a", "i", "d", "e", "e" >>,
    << "h", "a", "d" >>,
    << "s", "t", "a", "r", "t" >> }

Spoken ==
  { \* "hi dee, start recording"
    << "h", "i", " ", "d", "e", "e", ",", " ", "s", "t", "a", "r", "t", " ", "r", "e", "c", "o", "r", "d", "i", "n", "g" >>,
    \* "Heidi said hi dee  stop now "
    << "H", "e", "i", "d", "i", " ", "s", "a", "i", "d", " ", "h", "i", " ", "d", "e", "e", " ", " ", "s", "t", "o", "p", " ", "n", "o", "w", " " >> }

RECURSIVE joinWith(_, _)
joinWith(words, sep) ==
  IF words = << >> THEN << >>
  ELSE IF Len(words) = 1 THEN words[1]
       ELSE words[1] \o sep \o joinWith(Tail(words), sep)

Sentences == UNION { [1..n -> Vocabulary] : n \in 0..MaxWords }

Transcripts ==
  { joinWith(ws, << " " >>) : ws \in Sentences }
    \cup { << " " >> \o joinWith(ws, << " ", " " >>) \o << " " >> : ws \in Sentences }
    \cup Spoken

InitMatch ==
  /\ mode = "matcher"
  /\ initialized = FALSE
  /\ status = "idle"
  /\ isRunning = FALSE
  /\ currentTranscript \in Transcripts
  /\ speechBuffer = << >>
  /\ speechOver = TRUE
  /\ silenceTimer = "null"
  /\ recordingTimer = "null"
  /\ isCapturing = FALSE
  /\ vadState = "silence"
  /\ vadBuffer = << >>
  /\ consecutiveFrames = 0
  /\ stream = "null"
  /\ isStreaming = FALSE
  /\ reconnectTimer = "null"
  /\ pendingAudio = << >>
  /\ provEnding = 0
  /\ provZombies = 0
  /\ isRecording = FALSE
  /\ audioBuffer = << >>
  /\ recOver = TRUE
  /\ procPending = << >>
  /\ speakPending = << >>
  /\ session = "null"
  /\ isConnected = FALSE
  /\ liveAudioBuffer = << >>
  /\ glConnecting = 0
  /\ glClosing = 0
  /\ glOrphans = 0
  /\ commandTranscript = ""
  /\ commandTimeout = "null"
  /\ silenceCheckInterval = "null"
  /\ timeouts = << >>
  /\ log = << >>
  /\ statusTrail = << >>
  /\ cmdRuns = 0
  /\ cmdResponses = 0
  /\ nextChunk = 1

\* a transcript arrives and the matcher is called on it; the first log entry
\* records the transcript and the WakeWordMatch returned
MatchCall ==
  /\ log = << >>
  /\ Assign(BeginWith("match", 0,
                      [transcript |-> currentTranscript,
                       result |-> match(currentTranscript)]))

NextMatch ==
  \/ CallbackReturns
  \/ MatchCall

SpecMatch == InitMatch /\ [][NextMatch]_vars

(***************************************************************************)
(* Properties                                                              *)
(***************************************************************************)
\* the callback that ran last and the status it found ("" once it returned)
LastCallback == IF log = << >> THEN "" ELSE log[1].e

FoundStatus == IF log = << >> THEN "" ELSE log[1].st

\* the chunks carried by the entries of a log that record event e
ChunksOf(l, e) == [i \in 1..Len(Events(l, e)) |-> Events(l, e)[i].c]

NonEmpty(chunks) == SelectSeq(chunks, LAMBDA c : c # 0)

\* C1: no audio chunk goes to both consumers: the orchestrator calls
\* GoogleSpeechService.write, and the recognition stream is written, only
\* while status is listening; addAudioChunk (batch) is called only in
\* command_window and sendAudio (live) only in wake_detected; one audio data
\* callback never calls both write and the command session.
NoFanOut ==
  /\ \A i \in 1..Len(log) :
       /\ log[i].e \in {"write", "streamWrite"} => log[i].st = "listening"
       /\ log[i].e = "addAudioChunk"
            => mode = "batch" /\ log[i].st = "command_window"
       /\ log[i].e = "sendAudio" => mode = "live" /\ log[i].st = "wake_detected"
  /\ ~(Has(log, "write") /\ (Has(log, "addAudioChunk") \/ Has(log, "sendAudio")))

\* a data callback in which the VAD emitted speech and the chunk went to the
\* command session only
NoFanOutWitness ==
  LastCallback = "audioData" /\ Has(log, "speech") /\ Has(log, "addAudioChunk")

\* C2: batch orchestrator: a callback that detects the wake phrase emits
\* wakeDetected once, after stopStream() has ended the recognition stream,
\* and the statusChange events since idle are then exactly listening,
\* wake_detected, command_window; no status trail ever holds a second
\* wake_detected.
OneWakeDetected ==
  mode = "batch" =>
    /\ Len(SelectSeq(statusTrail, LAMBDA st : st = "wake_detected")) <= 1
    /\ Has(log, "wakeDetected") =>
         /\ Len(Events(log, "wakeDetected")) = 1
         /\ 0 < FirstIdx(log, "streamEnd")
         /\ FirstIdx(log, "streamEnd") < FirstIdx(log, "wakeDetected")
         /\ stream = "null" /\ ~isStreaming
         /\ statusTrail = << "listening", "wake_detected", "command_window" >>

\* a matching transcript of the open stream was just handled
OneWakeDetectedWitness ==
  mode = "batch" /\ LastCallback = "streamData" /\ Has(log, "wakeDetected")

\* C3: batch orchestrator: when the resetToIdle() at the end of
\* processCommand() runs in status processing, it leaves status idle and
\* the silence, recording and reconnect timers all cancelled.
NoTimerAfterCycle ==
  (mode = "batch" /\ LastCallback = "speakTextSettles"
     /\ FoundStatus = "processing") =>
    /\ Has(log, "resetToIdle")
    /\ status = "idle"
    /\ silenceTimer = "null"
    /\ recordingTimer = "null"
    /\ reconnectTimer = "null"

NoTimerAfterCycleWitness ==
  /\ mode = "batch" /\ LastCallback = "speakTextSettles"
  /\ FoundStatus = "processing" /\ status = "idle"

\* nothing the orchestrator started is still in flight
Settled == glConnecting = 0 /\ procPending = << >> /\ speakPending = << >>

\* C4: after stop() the service is not running, status is idle, no timer is
\* pending, the recognition stream is closed and, once the operations in
\* flight have settled, no command session is open or recording.
StopTearsDown ==
  ~isRunning =>
    /\ status = "idle"
    /\ silenceTimer # "armed" /\ recordingTimer # "armed"
    /\ reconnectTimer # "armed"
    /\ stream = "null" /\ ~isStreaming
    /\ Settled => session = "null" /\ ~isConnected /\ ~isRecording

\* C5: batch orchestrator: a wake detection leads to at most one run of
\* processCommand() and at most one geminiResponse; once processCommand()
\* has run, the recording is over and the backup timer is not pending, and
\* recordingComplete leaves the backup timer cancelled.
OneCommandRun ==
  mode = "batch" =>
    /\ cmdRuns <= 1
    /\ cmdResponses <= 1
    /\ Len(Events(log, "processCommand")) <= 1
    /\ cmdRuns >= 1 => ~isRecording /\ recordingTimer # "armed"
    /\ Has(log, "recordingComplete") => recordingTimer = "null"

\* the recording completed, processCommand() ran and its result was emitted
OneCommandRunWitness ==
  /\ mode = "batch" /\ LastCallback = "processAudioSettles"
  /\ cmdRuns = 1 /\ cmdResponses = 1 /\ Has(log, "geminiResponse")

\* C6: when the silence timer set by speechEnd expires while status is
\* listening, its callback ends the recognition stream, resets the VAD and
\* sets status idle.
GraceExpiryResets ==
  (LastCallback = "silenceTimer" /\ FoundStatus = "listening") =>
    /\ Has(log, "streamEnd") /\ stream = "null" /\ ~isStreaming
    /\ vadState = "silence" /\ consecutiveFrames = 0 /\ vadBuffer = << >>
    /\ status = "idle"

GraceExpiryResetsWitness ==
  LastCallback = "silenceTimer" /\ FoundStatus = "listening" /\ status = "idle"

\* C7: a callback other than stop() and start() that finds status error
\* leaves it error.
ErrorSticks ==
  (FoundStatus = "error" /\ LastCallback \notin {"stop", "start"})
    => status = "error"

\* C8: start() called in status error leaves the service running, with
\* status idle and audio capture started.
StartRecovers ==
  (initialized /\ status = "error") =>
    \A ok \in {TRUE} :
      LET w == start(World, ok)
      IN w.isRunning /\ w.status = "idle" /\ w.isCapturing

\* C9: at most one recognition stream is open at the provider.
AtMostOneStream ==
  (IF stream = "open" THEN 1 ELSE 0) + provZombies <= 1

PendingAudioCapped ==
  /\ Len(pendingAudio) <= MaxPendingAudio
  /\ \A i \in 1..Len(pendingAudio) :
       pendingAudio[i] = nextChunk - Len(pendingAudio) + i - 1

\* a write at the cap has evicted the oldest chunk
PendingAudioCappedWitness ==
  /\ LastCallback = "apiWrite"
  /\ Len(pendingAudio) = MaxPendingAudio
  /\ pendingAudio[1] > 1

\* speech segments open after the first k entries of a process() call: one
\* if the call found the VAD in Speech, plus the speechStart events, minus
\* the speechEnd events
SpeechDepth(k) ==
  (IF log[1].c.state = "speech" THEN 1 ELSE 0)
  + Cardinality({i \in 1..k : log[i].e = "speechStart"})
  - Cardinality({i \in 1..k : log[i].e = "speechEnd"})

CountedThenChunk ==
  [i \in 1..log[1].c.count |-> TRUE] \o log[1].c.frames

\* the positions of seq that end speechStartFrames consecutive speech frames
Triggers(seq) ==
  {i \in speechStartFrames..Len(seq) :
     \A j \in (i - speechStartFrames + 1)..i : seq[j]}

\* length of the run of speech frames that ends seq
TrailingRun(seq) ==
  Cardinality({i \in 1..Len(seq) : \A j \in i..Len(seq) : seq[j]})

ResetClearsVad ==
  Has(log, "resetToIdle") =>
    /\ vadState = "silence"
    /\ vadBuffer = << >>
    /\ consecutiveFrames = 0

\* C15: a listening episode is abandoned once maxSpeechDuration is exceeded:
\* a speech event handled in listening after that time stops recognition,
\* resets the VAD and returns the orchestrator to idle.  While audio keeps
\* arriving every listening episode ends: in listening either the VAD is in
\* Speech, so that every analysed frame emits the speech event whose handler
\* compares the duration, or the silence timer is armed, and that timer firing in
\* listening returns the orchestrator to idle.
ListeningAbandoned ==
  /\ (LastCallback = "audioData" /\ FoundStatus = "listening"
         /\ speechOver /\ Has(log, "speech")) =>
       /\ Has(log, "resetToIdle")
       /\ status = "idle"
       /\ stream = "null"
       /\ ~isStreaming
       /\ vadState = "silence"
       /\ vadBuffer = << >>
  /\ status = "listening" => (vadState = "speech" \/ silenceTimer = "armed")
  /\ (LastCallback = "silenceTimer" /\ FoundStatus = "listening") =>
       status = "idle"

ListeningAbandonedWitness ==
  /\ LastCallback = "audioData"
  /\ FoundStatus = "listening"
  /\ speechOver
  /\ Has(log, "speech")
  /\ status = "idle"

\* C16: in the batch orchestrator processing always ends in an outcome and a
\* reset to idle, even if the command session never responds, because a
\* processing timeout bounds the wait: while status is processing and
\* processAudio() has not settled, a timer is pending whose callback returns
\* the orchestrator to idle.
ProcessingTimesOut ==
  (mode = "batch" /\ status = "processing" /\ Len(procPending) > 0) =>
    \/ silenceTimer = "armed" /\ onSilenceTimer(World).status = "idle"
    \/ recordingTimer = "armed" /\ onRecordingTimer(World).status = "idle"
    \/ reconnectTimer = "armed" /\ startStream(World).status = "idle"

\* C17: in the live orchestrator wake_detected is bounded by a timer: if the
\* user never speaks and Gemini never sends turnComplete, error or
\* disconnected, the orchestrator still returns to idle: while status is
\* wake_detected a timer is pending whose callback returns the orchestrator
\* to idle.
WakeDetectedTimesOut ==
  (mode = "live" /\ status = "wake_detected") =>
    \/ silenceTimer = "armed" /\ onSilenceTimer(World).status = "idle"
    \/ reconnectTimer = "armed" /\ startStream(World).status = "idle"

\* C18: a recognition stream error while the orchestrator is listening
\* restarts the recognition session: the session is open again without a new
\* speechStart (when the error callback returns, or a timer is pending whose
\* callback opens it), and status remains listening.
StreamErrorRestarts ==
  (LastCallback = "streamError" /\ FoundStatus = "listening") =>
    /\ status = "listening"
    /\ \/ stream = "open" /\ isStreaming
       \/ reconnectTimer = "armed" /\ startStream(World).stream = "open"

SpeechStartResumesCommand ==
  (LastCallback = "audioData" /\ FoundStatus = "processing"
     /\ Has(log, "speechStart")) =>
    status = "command_window"

\* C21: a speechEnd emitted by the VAD while status is command_window moves
\* the orchestrator to processing.
SpeechEndStartsProcessing ==
  (LastCallback = "audioData" /\ FoundStatus = "command_window"
     /\ Has(log, "speechEnd")) =>
    status = "processing"

\* C22: in listening, once a final transcript of the current utterance has
\* been handled without a match, later interim transcripts of that utterance
\* are ignored: they do not run the matcher and cannot trigger wake
\* detection.  Wherever the open stream of a listening orchestrator may
\* deliver data: after a response carrying a final, non-matching transcript,
\* a response carrying an interim transcript emits no transcript event and
\* detects no wake phrase.
FinalEndsUtterance ==
  (status = "listening" /\ stream = "open" /\ log = << >>) =>
    \A final \in {r \in Results : r.alt /\ r.isFinal /\ Trim(r.text) # ""
                                      /\ ~Matched(Trim(r.text))} :
      \A interim \in {r \in Results : r.alt /\ ~r.isFinal} :
        LET w1 == handleResponse(World, << final >>)
            w2 == handleResponse([w1 EXCEPT !.log = << >>], << interim >>)
        IN /\ ~Has(w2.log, "transcript")
           /\ ~Has(w2.log, "wakeDetected")
           /\ w2.status = "listening"

StreamCloseSignalled ==
  LastCallback \in {"streamError", "streamEndEvent"} =>
    /\ stream = "null"
    /\ ~isStreaming
    /\ reconnectTimer # "armed"
    /\ Has(log, "speechError") \/ Has(log, "streamEnd")

\* C26: stopStream() is idempotent and safe in every state: it cancels the
\* reconnect timer and ends the stream if one is open; called with no open
\* stream, or twice in a row, it leaves stream null, isStreaming false, no
\* reconnect timer and the pending buffer unchanged.  In every state of the
\* service a call leaves exactly that, changes nothing else, ends a stream
\* only if one was open, and a second call changes nothing.
StopStreamIdempotent ==
  LET w0 == [World EXCEPT !.log = << >>]
      w1 == stopStream(w0)
      w2 == stopStream([w1 EXCEPT !.log = << >>])
  IN /\ w1.stream = "null"
     /\ ~w1.isStreaming
     /\ w1.reconnectTimer = "null"
     /\ w1.pendingAudio = pendingAudio
     /\ w1.provEnding = provEnding + (IF stream = "open" THEN 1 ELSE 0)
     /\ [w1 EXCEPT !.stream = stream, !.isStreaming = isStreaming,
                   !.reconnectTimer = reconnectTimer,
                   !.provEnding = provEnding, !.log = << >>] = w0
     /\ w2 = w1
     /\ LastCallback = "apiStopStream" =>
          /\ stream = "null"
          /\ ~isStreaming
          /\ reconnectTimer = "null"

\* stopStream() has ended an open stream
StopStreamIdempotentWitness ==
  /\ LastCallback = "apiStopStream"
  /\ provEnding > 0
  /\ stream = "null"
  /\ Has(log, "streamEnd")

\* C27: stop() of the orchestrator is idempotent: a second call, or a call
\* on a service that was never started, leaves status, isRunning, timers,
\* buffers and session state as they were and emits no statusChange.  In
\* every state, a stop() directly after a stop() changes no field and emits
\* neither statusChange nor stopped; on the service as constructed a stop()
\* changes no field and emits no statusChange.
StopIdempotent ==
  LET w0 == [World EXCEPT !.log = << >>]
      w1 == [stop(w0) EXCEPT !.log = << >>]
      w2 == stop(w1)
  IN /\ [w2 EXCEPT !.log = << >>] = w1
     /\ ~Has(w2.log, "statusChange")
     /\ ~Has(w2.log, "stopped")
     /\ w1.status = "idle"
     /\ ~w1.isRunning
     /\ Constructed =>
          /\ w1 = w0
          /\ ~Has(stop(w0).log, "statusChange")

\* stop() has stopped a service that was busy
StopIdempotentWitness ==
  /\ LastCallback = "stop"
  /\ FoundStatus # "idle"
  /\ Has(log, "statusChange")
  /\ Has(log, "stopped")
  /\ status = "idle"

SilentThenChunk ==
  [i \in 1..log[1].c.count |-> FALSE] \o log[1].c.frames

\* the positions of seq that end speechEndFrames consecutive silent frames
EndTriggers(seq) ==
  {i \in speechEndFrames..Len(seq) :
     \A j \in (i - speechEndFrames + 1)..i : ~seq[j]}

\* length of the run of silent frames that ends seq
TrailingSilentRun(seq) ==
  Cardinality({i \in 1..Len(seq) : \A j \in i..Len(seq) : ~seq[j]})

FramesComplete ==
  /\ Len(vadBuffer) < bytesPerFrame
  /\ \A i \in 1..Len(vadBuffer) :
       vadBuffer[i].n = nextChunk - 1 - Len(vadBuffer) + i
  /\ (nextChunk - 1 - Len(vadBuffer)) % bytesPerFrame = 0
  /\ LastCallback = "vadProcessBytes" =>
       LET frames == ChunksOf(log, "frame")
           before == log[1].c.total - Len(log[1].c.rem)
           given  == nextChunk - 1 - log[1].c.total
       IN /\ Len(frames) = (Len(log[1].c.rem) + given) \div bytesPerFrame
          /\ before + Len(frames) * bytesPerFrame
               = ((nextChunk - 1) \div bytesPerFrame) * bytesPerFrame
          /\ \A k \in 1..Len(frames) :
               /\ Len(frames[k]) = bytesPerFrame
               /\ \A j \in 1..bytesPerFrame :
                    frames[k][j].n = before + (k - 1) * bytesPerFrame + j

\* a remainder was carried into a call that analysed a frame and left a
\* remainder
FramesCompleteWitness ==
  /\ LastCallback = "vadProcessBytes"
  /\ Len(log[1].c.rem) > 0
  /\ Has(log, "frame")
  /\ Len(vadBuffer) > 0

\* C31: while the VAD is in Speech each chunk passed to process() is emitted
\* as a speech event exactly once, however many frames the chunk holds or
\* completes: a process() call that finds the VAD in Speech and leaves it in
\* Speech emits one speech event.
OneSpeechEventPerChunk ==
  (LastCallback = "vadProcess" /\ log[1].c.state = "speech"
     /\ ~Has(log, "speechEnd")) =>
    Len(Events(log, "speech")) = 1

\* phrase p stands in text s at offset i, counted from 0
Occurs(s, p, i) ==
  i + Len(p) <= Len(s) /\ \A j \in 1..Len(p) : s[i + j] = p[j]

\* the configured phrases that text s contains
Contained(s) ==
  { k \in 1..Len(wakeWords) : \E i \in 0..Len(s) : Occurs(s, wakeWords[k], i) }

FirstContained(s) == CHOOSE k \in Contained(s) : \A j \in Contained(s) : k <= j

FirstOccurrence(s, p) ==
  CHOOSE i \in 0..Len(s) : Occurs(s, p, i) /\ \A j \in 0..(i - 1) : ~Occurs(s, p, j)

\* the text of s after the first occurrence of phrase p
TextAfter(s, p) ==
  [j \in 1..(Len(s) - FirstOccurrence(s, p) - Len(p)) |->
     s[FirstOccurrence(s, p) + Len(p) + j]]

\* text s without the white space around it
Stripped(s) ==
  LET inked == { i \in 1..Len(s) : s[i] \notin WhiteSpace }
      lo == CHOOSE i \in inked : \A j \in inked : i <= j
      hi == CHOOSE i \in inked : \A j \in inked : i >= j
  IN IF inked = {} THEN << >> ELSE [j \in 1..(hi - lo + 1) |-> s[lo + j - 1]]

MatchInput == log[1].c.transcript

MatchResult == log[1].c.result

ResidualIsCommandAlone ==
  (LastCallback = "match"
     /\ MatchInput = << "h", "i", " ", "d", "e", "e", ",", " ", "s", "t", "a", "r", "t", " ",
                      "r", "e", "c", "o", "r", "d", "i", "n", "g" >>) =>
    /\ MatchResult.matched
    /\ MatchResult.matchedPhrase = << "h", "i", " ", "d", "e", "e" >>
    /\ MatchResult.remainingText = 
         << "s", "t", "a", "r", "t", " ", "r", "e", "c", "o", "r", "d", "i", "n", "g" >>

\* the candidates of a normalized text in the order the claim gives: word i
\* for i up to the number of words, then the pair that starts at word i - n
CandidateText(words, i) ==
  IF i <= Len(words) THEN words[i]
  ELSE words[i - Len(words)] \o << " " >> \o words[i - Len(words) + 1]

\* the candidate and phrase pairs of a normalized text whose blended
\* similarity reaches the threshold
Hits(words) ==
  { h \in (1..(2 * Len(words) - 1)) \X (1..Len(wakeWords)) :
      FracGeq(calculateSimilarity(CandidateText(words, h[1]), wakeWords[h[2]]),
              threshold) }

\* the first of a set of pairs in iteration order
FirstHit(hits) ==
  CHOOSE h \in hits :
    \A g \in hits : h[1] < g[1] \/ (h[1] = g[1] /\ h[2] <= g[2])

\* C34: when no configured phrase is a substring of the normalized
\* transcript, match() returns matched exactly if some candidate (each word,
\* then each pair of adjacent words, in transcript order) and some configured
\* phrase have a blended similarity of at least the threshold; it returns the
\* first such pair in that order, with its score, at least the threshold and
\* at most 1, as confidence; otherwise it returns not matched, confidence 0
\* and the transcript as it was given as residual.
FuzzyMatchResult ==
  LastCallback = "match" =>
    LET n == Stripped(toLowerCase(MatchInput))
        words == split(n)
        hits == Hits(words)
    IN Contained(n) = {} =>
         IF hits = {}
         THEN /\ ~MatchResult.matched
              /\ MatchResult.confidence.num = 0
              /\ MatchResult.remainingText = MatchInput
         ELSE LET h == FirstHit(hits)
              IN /\ MatchResult.matched
                 /\ MatchResult.matchedPhrase = CandidateText(words, h[1])
                 /\ MatchResult.matchedWakeWord = wakeWords[h[2]]
                 /\ MatchResult.confidence
                      = calculateSimilarity(CandidateText(words, h[1]),
                                            wakeWords[h[2]])
                 /\ FracGeq(MatchResult.confidence, threshold)
                 /\ FracGeq(Frac(1, 1), MatchResult.confidence)

\* no phrase is a substring, the first pair to reach the threshold scores
\* exactly the threshold, and it is neither the first candidate nor paired
\* with the first phrase
FuzzyMatchResultWitness ==
  /\ LastCallback = "match"
  /\ LET n == Stripped(toLowerCase(MatchInput))
         words == split(n)
         hits == Hits(words)
     IN /\ Contained(n) = {}
        /\ hits # {}
        /\ FirstHit(hits)[1] > 1
        /\ FirstHit(hits)[2] > 1
        /\ MatchResult.matched
        /\ FracGeq(threshold, MatchResult.confidence)

\* no phrase is a substring and no pair reaches the threshold: the residual
\* is the transcript as given, which differs from its normalized form
FuzzyNoMatchWitness ==
  /\ LastCallback = "match"
  /\ ~MatchResult.matched
  /\ MatchResult.remainingText = MatchInput
  /\ MatchInput # Stripped(toLowerCase(MatchInput))

\* C35: every timer of the stt orchestrator is cancelled by stop(): a timer
\* callback that was pending when stop() was called performs no effect when
\* it fires afterwards, whether or not start() was called again: it ends no
\* open recognition stream, starts none and changes no status.
NoEffectAfterStop ==
  (mode = "stt" /\ LastCallback = "timeout" /\ log[1].c.stale) =>
    /\ ~Has(log, "streamStart")
    /\ ~Has(log, "statusChange")
    /\ log[1].c.stream = "open" => stream = "open"

\* C36: a late data, end or error event of a recognition stream that the
\* service has stopped or replaced leaves the reference, the isStreaming
\* flag and the reconnect timer of the current stream as it found them,
\* and no transcript or error event is emitted for it.
StaleEventsIgnored ==
  LastCallback \in {"staleStreamData", "staleStreamCloses"} =>
    /\ stream = log[1].c.stream
    /\ isStreaming = log[1].c.isStreaming
    /\ reconnectTimer = log[1].c.reconnectTimer
    /\ ~Has(log, "transcript")
    /\ ~Has(log, "speechError")

\* C37: audio buffered in pendingAudio while no stream was open is not
\* replayed into the session of a later utterance: when a speechStart that
\* finds the orchestrator idle opens a recognition session, that session is
\* written only the chunks that the speech handler passes to write() in the
\* same callback (no write throwing).
NoReplayIntoNextUtterance ==
  (LastCallback = "audioData" /\ FoundStatus = "idle"
     /\ Has(log, "streamStart") /\ ~Has(log, "writeThrew")) =>
    Len(Events(log, "streamWrite")) <= Len(Events(log, "write"))

\* C38: the late completion of an earlier interaction does not disturb a
\* newer one.  Batch: a processCommand() continuation that finds the status
\* listening, wake_detected or command_window (its own cycle left processing
\* through idle) does not call resetToIdle.  Live: the close callback of a
\* session that was ended earlier, finding a new cycle in wake_detected with
\* a session of its own open or being opened, does not call resetToIdle and
\* leaves the session reference and the connected flag as they are.
LateCompletionHarmless ==
  /\ (mode = "batch"
        /\ LastCallback \in {"processAudioSettles", "speakTextSettles"}
        /\ FoundStatus \in {"listening", "wake_detected", "command_window"}) =>
       ~Has(log, "resetToIdle")
  /\ (mode = "live" /\ LastCallback = "liveClose"
        /\ log[1].c.src = "closing"
        /\ FoundStatus = "wake_detected"
        /\ (log[1].c.session = "open" \/ log[1].c.glConnecting > 0)) =>
       /\ ~Has(log, "resetToIdle")
       /\ session = log[1].c.session
       /\ isConnected = log[1].c.isConnected

\* C39: between stop() and the next start() the orchestrator emits no
\* wakeDetected, geminiResponse, toolCall or geminiAudio event: no callback
\* that leaves the service not running has emitted one.
SilentWhileStopped ==
  ~isRunning =>
    \A e \in {"wakeDetected", "geminiResponse", "toolCall", "geminiAudio"} :
      ~Has(log, e)

\* C40: batch and live orchestrators: a recognition stream is open only
\* while the status is listening: in every other status the service
\* references no stream and no reconnect timer is pending.
StreamOnlyWhileListening ==
  status # "listening" =>
    /\ stream = "null"
    /\ ~isStreaming
    /\ reconnectTimer # "armed"

====
